---- MODULE Spec2Model ----
(***************************************************************************)
(* sqlvec: SqlVec<T>, a vector stored in one SQLite text column as its     *)
(* elements' display strings joined by the character U+F1.                 *)
(*                                                                         *)
(* A string is a sequence of characters; a character is a one-token TLA+   *)
(* string.  An optional value is <<>> (absent) or <<x>> (present).         *)
(***************************************************************************)
EXTENDS Integers, Sequences, FiniteSets

\* ------------------------------------------------------------- bounds
MaxTextLen == 4     \* characters in a text (typed in, stored, or encoded)
MaxLen == 2         \* elements of a SqlVec of a non-string element type
MaxInt == 10        \* largest integer element

\* ------------------------------------------------------------- characters
Delim == "U+F1"
Space == " "
Digits == <<"0", "1", "2", "3", "4", "5", "6", "7", "8", "9">>
Alphabet == {"a", Space, Delim, "1", "+"}

I32Max == 2147483647
I32Min == (-I32Max) - 1

None == <<>>
Some(x) == <<x>>

Strings(n) == UNION {[1..k -> Alphabet] : k \in 0..n}

\* ------------------------------------------------------------- str helpers
IsWhitespace(c) == c = Space

RECURSIVE trim_start(_)
trim_start(s) ==
    IF s # <<>> /\ IsWhitespace(Head(s)) THEN trim_start(Tail(s)) ELSE s

RECURSIVE trim_end(_)
trim_end(s) ==
    IF s # <<>> /\ IsWhitespace(s[Len(s)])
    THEN trim_end(SubSeq(s, 1, Len(s) - 1))
    ELSE s

trim(s) == trim_end(trim_start(s))

\* s.split('\u{F1}'): scans s once; every delimiter closes the current piece,
\* the end of s closes the last one (so "" gives one empty piece).
RECURSIVE split_from(_, _, _, _)
split_from(s, i, cur, acc) ==
    IF i > Len(s) THEN Append(acc, cur)
    ELSE IF s[i] = Delim THEN split_from(s, i + 1, <<>>, Append(acc, cur))
    ELSE split_from(s, i + 1, Append(cur, s[i]), acc)

\* fault: the text is cut at whitespace, not at the delimiter
RECURSIVE split_at_space_from(_, _, _, _)
split_at_space_from(s, i, cur, acc) ==
    IF i > Len(s) THEN Append(acc, cur)
    ELSE IF s[i] = Space THEN split_at_space_from(s, i + 1, <<>>, Append(acc, cur))
    ELSE split_at_space_from(s, i + 1, Append(cur, s[i]), acc)

split_at_space(s) == split_at_space_from(s, 1, <<>>, <<>>)

split(s) == split_from(s, 1, <<>>, <<>>)

\* [String]::join(sep): the first string, then sep and the next, and so on.
RECURSIVE join_from(_, _, _)
join_from(strs, k, acc) ==
    IF k > Len(strs) THEN acc
    ELSE join_from(strs, k + 1, IF k = 1 THEN strs[k] ELSE acc \o <<Delim>> \o strs[k])

join(strs) == join_from(strs, 1, <<>>)

\* ------------------------------------------------------------- element types
\* T: ToString + FromStr.  "String" and "Char" are the std types, "Int" is the
\* i32 wrapper MyType of the Default example, "Keyword" is a user type whose
\* FromStr accepts any unambiguous non-empty prefix of a keyword.
ElemTypes == {"String", "Int", "Char", "Keyword"}

Keywords == {<<"a", Delim>>, <<"1", "1">>}

Ok(v) == [ok |-> TRUE, v |-> v]
Err(e) == [ok |-> FALSE, v |-> e]

RECURSIVE DisplayNat(_)
DisplayNat(n) ==
    IF n < 10 THEN <<Digits[n + 1]>>
    ELSE DisplayNat(n \div 10) \o <<Digits[(n % 10) + 1]>>

DisplayInt(n) == IF n < 0 THEN <<"-">> \o DisplayNat(-n) ELSE DisplayNat(n)

IsDigit(c) == \E d \in 1..10 : Digits[d] = c
DigitVal(c) == (CHOOSE d \in 1..10 : Digits[d] = c) - 1

RECURSIVE NatOf(_, _)
NatOf(ds, acc) ==
    IF ds = <<>> THEN acc ELSE NatOf(Tail(ds), 10 * acc + DigitVal(Head(ds)))

\* i32::from_str: optional sign, then at least one digit, range checked.
ParseInt(s) ==
    IF s = <<>> THEN Err("Empty")
    ELSE IF s = <<"+">> \/ s = <<"-">> THEN Err("InvalidDigit")
    ELSE LET neg == Head(s) = "-"
             ds == IF Head(s) \in {"+", "-"} THEN Tail(s) ELSE s
         IN IF \E i \in 1..Len(ds) : ~IsDigit(ds[i]) THEN Err("InvalidDigit")
            ELSE LET n == IF neg THEN -NatOf(ds, 0) ELSE NatOf(ds, 0)
                 IN IF n > I32Max THEN Err("PosOverflow")
                    ELSE IF n < I32Min THEN Err("NegOverflow")
                    ELSE Ok(n)

\* char::from_str: exactly one character.
ParseChar(s) ==
    IF s = <<>> THEN Err("EmptyString")
    ELSE IF Len(s) > 1 THEN Err("TooManyChars")
    ELSE Ok(s[1])

IsPrefix(p, s) == Len(p) <= Len(s) /\ SubSeq(s, 1, Len(p)) = p

ParseKeyword(s) ==
    LET hits == {k \in Keywords : s # <<>> /\ IsPrefix(s, k)}
    IN IF Cardinality(hits) = 1 THEN Ok(CHOOSE k \in hits : TRUE)
       ELSE Err("UnknownKeyword")

\* T::to_string
Display(ty, v) ==
    CASE ty = "String" -> v
      [] ty = "Int" -> DisplayInt(v)
      [] ty = "Char" -> <<v>>
      [] ty = "Keyword" -> v

\* T::from_str (str::parse::<T>)
Parse(ty, s) ==
    CASE ty = "String" -> Ok(s)
      [] ty = "Int" -> ParseInt(s)
      [] ty = "Char" -> ParseChar(s)
      [] ty = "Keyword" -> ParseKeyword(s)

\* ------------------------------------------------------------- SqlVec<T>
\* pub struct SqlVec<T: ToString + FromStr>(Vec<T>)
SqlVec(ty, items) == [ty |-> ty, items |-> items]

new(ty, items) == SqlVec(ty, items)

\* .iter().map(|s| s.to_string()).collect::<Vec<String>>()
map_to_string(ty, items) == [i \in 1..Len(items) |-> Display(ty, items[i])]

\* fault: the first parse failure ends the sequence (map_while for filter_map)
RECURSIVE map_while_ok(_)
map_while_ok(results) ==
    IF results = <<>> \/ ~Head(results).ok THEN <<>>
    ELSE <<Head(results).v>> \o map_while_ok(Tail(results))

\* the Ok values of a sequence of parse results, in order (filter_map(.. .ok()))
RECURSIVE filter_map_ok(_)
filter_map_ok(results) ==
    IF results = <<>> THEN <<>>
    ELSE IF Head(results).ok THEN <<Head(results).v>> \o filter_map_ok(Tail(results))
    ELSE filter_map_ok(Tail(results))

to_string(self) == join(map_to_string(self.ty, self.items))

\* fault: the pieces are kept as split, not trimmed
from_str_untrimmed(s) ==
    LET pieces == split(s)
        items == filter_map_ok([i \in 1..Len(pieces) |-> Parse("String", pieces[i])])
    IN Ok(SqlVec("String", items))

\* fault: pieces that are empty after trimming are skipped
from_str_skip_empty(s) ==
    LET pieces == split(s)
        items == filter_map_ok([i \in 1..Len(pieces) |->
                    IF trim(pieces[i]) = <<>> THEN Err("Empty")
                    ELSE Parse("String", trim(pieces[i]))])
    IN Ok(SqlVec("String", items))

\* impl FromStr for SqlVec<String>
from_str(s) ==
    LET pieces == split(s)
        items == filter_map_ok([i \in 1..Len(pieces) |-> Parse("String", trim(pieces[i]))])
    IN Ok(SqlVec("String", items))

\* rusqlite column values (ValueRef) and the value a bind produces (Value).
\* A Text holds bytes: either the UTF-8 of the string s, or bytes that are no UTF-8.
Null == [kind |-> "Null", utf8 |-> FALSE, s |-> <<>>]
Integer == [kind |-> "Integer", utf8 |-> FALSE, s |-> <<>>]
Real == [kind |-> "Real", utf8 |-> FALSE, s |-> <<>>]
Blob(b) == [kind |-> "Blob", utf8 |-> FALSE, s |-> b]
Text(s) == [kind |-> "Text", utf8 |-> TRUE, s |-> s]
TextNotUtf8 == [kind |-> "Text", utf8 |-> FALSE, s |-> <<>>]

\* fault: a delimiter follows every element, the last one included
to_sql_trailing(self) ==
    LET strs == map_to_string(self.ty, self.items)
        items_str == IF strs = <<>> THEN <<>> ELSE join(strs) \o <<Delim>>
    IN Ok(Text(items_str))

to_sql(self) ==
    LET items_str == join(map_to_string(self.ty, self.items))
    IN Ok(Text(items_str))

\* ValueRef::as_str: the text's bytes as a str
as_str(value) ==
    IF value.kind = "Text"
    THEN IF value.utf8 THEN Ok(value.s) ELSE Err("Utf8Error")
    ELSE Err("InvalidType")

\* fault: a value that is not text is read as the empty text (unwrap_or(""))
column_result_lenient(ty, value) ==
    LET str == as_str(value)
        pieces == split(IF str.ok THEN str.v ELSE <<>>)
        items == filter_map_ok([i \in 1..Len(pieces) |-> Parse(ty, pieces[i])])
    IN Ok(SqlVec(ty, items))

\* fault: every piece is trimmed before it is parsed, as from_str does
column_result_trimmed(ty, value) ==
    LET str == as_str(value)
    IN IF ~str.ok THEN str
       ELSE LET pieces == split(str.v)
                items == filter_map_ok([i \in 1..Len(pieces) |-> Parse(ty, trim(pieces[i]))])
            IN Ok(SqlVec(ty, items))

\* impl FromSql for SqlVec<T>
column_result(ty, value) ==
    LET str == as_str(value)
    IN IF ~str.ok THEN str
       ELSE LET pieces == split(str.v)
                items == filter_map_ok([i \in 1..Len(pieces) |-> Parse(ty, pieces[i])])
            IN Ok(SqlVec(ty, items))

\* ------------------------------------------------------------- inputs
ElemValues(ty) ==
    CASE ty = "Int" -> (-1)..MaxInt
      [] ty = "Char" -> Alphabet
      [] ty = "Keyword" -> Keywords

\* Vectors of strings whose encoding has at most MaxTextLen characters: a word
\* over the alphabet and an element break, cut at the breaks.
Break == "break"
RECURSIVE cut_from(_, _, _, _)
cut_from(w, i, cur, acc) ==
    IF i > Len(w) THEN Append(acc, cur)
    ELSE IF w[i] = Break THEN cut_from(w, i + 1, <<>>, Append(acc, cur))
    ELSE cut_from(w, i + 1, Append(cur, w[i]), acc)

StringVecs ==
    {<<>>} \cup {cut_from(w, 1, <<>>, <<>>) :
                    w \in UNION {[1..k -> Alphabet \cup {Break}] : k \in 0..MaxTextLen}}

Vecs(ty) ==
    IF ty = "String" THEN StringVecs
    ELSE UNION {[1..n -> ElemValues(ty)] : n \in 0..MaxLen}

Texts == Strings(MaxTextLen)

ValueRefs ==
    {Null, Integer, Real, TextNotUtf8}
        \cup {Blob(b) : b \in Strings(1)}
        \cup {Text(s) : s \in Texts}

\* ------------------------------------------------------------- state
VARIABLES
    values,     \* the SqlVec built by new, if any
    text,       \* a string: typed in, or the to_string of values
    col,        \* the column value: stored by someone else, or bound from values
    parsed,     \* the result of from_str on text
    db_values   \* the result of column_result on col

vars == <<values, text, col, parsed, db_values>>

Init ==
    /\ values = None
    /\ text = None
    /\ col = None
    /\ parsed = None
    /\ db_values = None

Fresh == values = None /\ text = None /\ col = None

\* let values = SqlVec::new(items)
New ==
    /\ Fresh
    /\ \E ty \in ElemTypes : \E items \in Vecs(ty) :
          values' = Some(new(ty, items))
    /\ UNCHANGED <<text, col, parsed, db_values>>

\* a text that did not come from this library
Input ==
    /\ Fresh
    /\ \E s \in Texts : text' = Some(s)
    /\ UNCHANGED <<values, col, parsed, db_values>>

\* a column value that did not come from this library
Stored ==
    /\ Fresh
    /\ \E v \in ValueRefs : col' = Some(v)
    /\ UNCHANGED <<values, text, parsed, db_values>>

ToString ==
    /\ values # None
    /\ text = None
    /\ text' = Some(to_string(values[1]))
    /\ UNCHANGED <<values, col, parsed, db_values>>

\* INSERT ... params![values]: the bound value is what the column holds
ToSql ==
    /\ values # None
    /\ col = None
    /\ LET out == to_sql(values[1])
       IN /\ out.ok
          /\ col' = Some(out.v)
    /\ UNCHANGED <<values, text, parsed, db_values>>

FromStr ==
    /\ text # None
    /\ parsed = None
    /\ parsed' = Some(from_str(text[1]))
    /\ UNCHANGED <<values, text, col, db_values>>

\* row.get(0) as SqlVec<ty>; a column bound from values is read back as the
\* element type it was written with, a column stored by someone else as any
ColumnResult(ty) ==
    /\ col # None
    /\ db_values = None
    /\ values # None => ty = values[1].ty
    /\ db_values' = Some([ty |-> ty, r |-> column_result(ty, col[1])])
    /\ UNCHANGED <<values, text, col, parsed>>

Next ==
    \/ New
    \/ Input
    \/ Stored
    \/ ToString
    \/ ToSql
    \/ FromStr
    \/ \E ty \in ElemTypes : ColumnResult(ty)

Spec == Init /\ [][Next]_vars

\* ------------------------------------------------------------- vocabulary of the claims
\* These describe texts and sequences by position, without the scanning
\* operators above.

HasDelim(s) == \E i \in 1..Len(s) : s[i] = Delim

DelimCount(s) == Cardinality({i \in 1..Len(s) : s[i] = Delim})

\* position of the k-th delimiter of s; 0 for k = 0, Len(s) + 1 past the last
DelimPos(s, k) ==
    IF k = 0 THEN 0
    ELSE IF k > DelimCount(s) THEN Len(s) + 1
    ELSE CHOOSE p \in 1..Len(s) :
            s[p] = Delim /\ Cardinality({q \in 1..p : s[q] = Delim}) = k

\* the i-th delimiter-separated substring of s, i in 1..DelimCount(s)+1
Segment(s, i) == SubSeq(s, DelimPos(s, i - 1) + 1, DelimPos(s, i) - 1)

Surrounded(s) == s # <<>> /\ (s[1] = Space \/ s[Len(s)] = Space)

\* s without its leading and trailing whitespace
Trimmed(s) ==
    LET inked == {i \in 1..Len(s) : s[i] # Space}
    IN IF inked = {} THEN <<>>
       ELSE SubSeq(s, CHOOSE i \in inked : \A j \in inked : i <= j,
                      CHOOSE i \in inked : \A j \in inked : j <= i)

RECURSIVE SumLen(_, _)
SumLen(strs, k) == IF k = 0 THEN 0 ELSE SumLen(strs, k - 1) + Len(strs[k])

\* t is the strings strs, in order, with exactly one delimiter between neighbours
IsJoined(t, strs) ==
    LET n == Len(strs)
        off(k) == SumLen(strs, k - 1) + (k - 1)
    IN IF n = 0 THEN t = <<>>
       ELSE /\ Len(t) = SumLen(strs, n) + (n - 1)
            /\ \A k \in 1..n : SubSeq(t, off(k) + 1, off(k) + Len(strs[k])) = strs[k]
            /\ \A k \in 1..(n - 1) : t[off(k + 1)] = Delim

Displays(v) == [i \in 1..Len(v.items) |-> Display(v.ty, v.items[i])]

NoDelimIn(v) == \A i \in 1..Len(v.items) : ~HasDelim(Display(v.ty, v.items[i]))

Domain(ty) == IF ty = "String" THEN Texts ELSE ElemValues(ty)

\* element types whose from-string undoes their display string
PerfectInverse == {ty \in ElemTypes : \A v \in Domain(ty) : Parse(ty, Display(ty, v)) = Ok(v)}

\* element types whose from-string accepts a string only as the display string
\* of the value it returns
ExactParse ==
    {ty \in ElemTypes : \A s \in Texts : Parse(ty, s).ok => Display(ty, Parse(ty, s).v) = s}

Bound == values # None /\ col # None
Shown == values # None /\ text # None
Extracted == col # None /\ db_values # None
Decoded == text # None /\ parsed # None
ValidText(v) == v.kind = "Text" /\ v.utf8

\* ------------------------------------------------------------- claims

\* C1: bind/extract round trip.  For every sequence (the empty one included) of
\* an element type whose from-string undoes its display string, with no
\* delimiter in any display string, extracting the bound text gives the sequence.
C1_RoundTripAnyLength ==
    (Bound /\ Extracted /\ values[1].ty \in PerfectInverse /\ NoDelimIn(values[1]))
        => db_values[1].r = Ok(values[1])

\* C2: text round trip for strings.  For every sequence of strings without the
\* delimiter, from_str of its to_string gives the sequence.
C2_TextRoundTrip ==
    (Shown /\ Decoded /\ values[1].ty = "String" /\ NoDelimIn(values[1]))
        => parsed[1] = Ok(values[1])

\* C3: silent drop with order preservation.  Extraction of a text of N segments,
\* K of them unparseable (untrimmed), succeeds with exactly the N-K parse
\* results of the parseable segments, in their original order.
C3_SilentDrop ==
    (Extracted /\ ValidText(col[1])) =>
        LET s == col[1].s
            ty == db_values[1].ty
            r == db_values[1].r
            N == DelimCount(s) + 1
            good == {i \in 1..N : Parse(ty, Segment(s, i)).ok}
            K == N - Cardinality(good)
            \* the j-th parseable segment
            nth(j) == CHOOSE i \in good : Cardinality({g \in good : g <= i}) = j
        IN /\ r.ok
           /\ r.v.ty = ty
           /\ Len(r.v.items) = N - K
           /\ \A j \in 1..(N - K) : r.v.items[j] = Parse(ty, Segment(s, nth(j))).v

C3_Witness ==
    /\ Extracted /\ ValidText(col[1])
    /\ db_values[1].ty = "Int"
    /\ DelimCount(col[1].s) = 2
    /\ db_values[1].r.ok
    /\ Len(db_values[1].r.v.items) = 2
    /\ ~Parse("Int", Segment(col[1].s, 2)).ok

C5_EncodingIsJoin ==
    /\ Shown => IsJoined(text[1], Displays(values[1]))
    /\ Bound => /\ ValidText(col[1])
                /\ IsJoined(col[1].s, Displays(values[1]))
    /\ (Shown /\ Bound) => col[1].s = text[1]
    /\ (values # None /\ col = None) => ENABLED ToSql

C5_Witness ==
    /\ Shown /\ Bound
    /\ Len(values[1].items) >= 2
    /\ values[1].ty = "Int"
    /\ Len(text[1]) >= 4

\* C6: from_str is total on texts: with d delimiters in the input it returns Ok
\* with d+1 elements, the i-th being the i-th delimiter-separated substring
\* without its surrounding whitespace; no element holds a delimiter or has
\* surrounding whitespace.
C6_StringDecodeTotal ==
    /\ Decoded =>
          LET s == text[1]
              r == parsed[1]
          IN /\ r.ok
             /\ r.v.ty = "String"
             /\ Len(r.v.items) = DelimCount(s) + 1
             /\ \A i \in 1..Len(r.v.items) :
                   /\ r.v.items[i] = Trimmed(Segment(s, i))
                   /\ ~HasDelim(r.v.items[i])
                   /\ ~Surrounded(r.v.items[i])

C6_Witness ==
    /\ Decoded /\ values = None
    /\ DelimCount(text[1]) = 1
    /\ Surrounded(Segment(text[1], 1))
    /\ Len(parsed[1].v.items) = 2
    /\ parsed[1].v.items[1] # <<>>

\* C7 as claimed: whenever some element's display string holds the delimiter,
\* encoding and decoding back (column_result; from_str for strings) succeeds
\* with a sequence different from the original.
C7_CollisionAlwaysDiffers ==
    (values # None /\ ~NoDelimIn(values[1])) =>
        /\ (Bound /\ Extracted) =>
              (db_values[1].r.ok /\ db_values[1].r.v # values[1])
        /\ (Shown /\ Decoded /\ values[1].ty = "String") =>
              (parsed[1].ok /\ parsed[1].v # values[1])

\* C7 amended: the same, for element types whose from-string accepts a string
\* only as the display string of the value it returns (String and char).
C7_CollisionDiffersExactParse ==
    (values # None /\ ~NoDelimIn(values[1]) /\ values[1].ty \in ExactParse) =>
        /\ (Bound /\ Extracted) =>
              (db_values[1].r.ok /\ db_values[1].r.v # values[1])
        /\ (Shown /\ Decoded /\ values[1].ty = "String") =>
              (parsed[1].ok /\ parsed[1].v # values[1])

C7_Witness ==
    /\ Bound /\ Extracted /\ Shown /\ Decoded
    /\ values[1].ty = "String"
    /\ ~NoDelimIn(values[1])
    /\ Len(values[1].items) = 2
    /\ Len(db_values[1].r.v.items) = 3

\* C8: extracting a SqlVec<String> from Text(s) gives what from_str(s) gives.
C8_ExtractionIsFromStr ==
    (Extracted /\ ValidText(col[1]) /\ db_values[1].ty = "String")
        => db_values[1].r = from_str(col[1].s)

\* C9: the empty text decodes to the one-element sequence [""] by from_str and by
\* extraction of strings, to the empty sequence by extraction of integers; no
\* string decode gives a sequence of length zero.
C9_EmptyText ==
    /\ (Decoded /\ text[1] = <<>>) => parsed[1] = Ok(SqlVec("String", <<<<>>>>))
    /\ (Extracted /\ ValidText(col[1]) /\ col[1].s = <<>>) =>
          /\ db_values[1].ty = "String" => db_values[1].r = Ok(SqlVec("String", <<<<>>>>))
          /\ db_values[1].ty \in {"Int", "Char", "Keyword"} =>
                db_values[1].r = Ok(SqlVec(db_values[1].ty, <<>>))
    /\ Decoded => (parsed[1].ok /\ Len(parsed[1].v.items) >= 1)
    /\ (Extracted /\ ValidText(col[1]) /\ db_values[1].ty = "String") =>
          (db_values[1].r.ok /\ Len(db_values[1].r.v.items) >= 1)

C9_Witness ==
    /\ Bound /\ Extracted /\ Shown /\ Decoded
    /\ values[1] = SqlVec("String", <<>>)
    /\ text[1] = <<>>
    /\ col[1].s = <<>>
    /\ Len(parsed[1].v.items) = 1
    /\ Len(db_values[1].r.v.items) = 1

\* C10: for every non-empty sequence of strings without the delimiter, extracting
\* the text bound from it gives exactly that sequence: same length, same order,
\* every element unchanged, surrounding whitespace and empty strings included.
C10_DatabaseRoundTrip ==
    (Bound /\ Extracted /\ values[1].ty = "String" /\ values[1].items # <<>>
           /\ NoDelimIn(values[1]))
        => /\ db_values[1].r = Ok(values[1])
           /\ Len(db_values[1].r.v.items) = Len(values[1].items)
           /\ \A i \in 1..Len(values[1].items) : db_values[1].r.v.items[i] = values[1].items[i]

C10_Witness ==
    /\ Bound /\ Extracted
    /\ values[1].ty = "String"
    /\ NoDelimIn(values[1])
    /\ Len(values[1].items) = 2
    /\ Surrounded(values[1].items[1])
    /\ values[1].items[2] = <<>>
    /\ db_values[1].r.ok

====
